---- MODULE Spec2Model ----
(***************************************************************************)
(* Dispatch-and-reconciliation engine of the WhatsApp sender:              *)
(*   - WhatsAppClient.send_message / _send_twilio / _send_meta / send_bulk *)
(*     (src/whatsapp.py),                                                  *)
(*   - the dashboard's own send loop (src/dashboard.py),                   *)
(*   - the message_log table and its writers, log_message,                 *)
(*     update_message_status and delete_all_contacts (src/database.py),    *)
(*   - the webhook endpoints (src/webhook.py),                             *)
(*   - cmd_send of the CLI (src/cli.py) and the /send conversation of the  *)
(*     Telegram bot (src/telegram_bot.py).                                 *)
(*                                                                         *)
(* The modules are modelled as they stand in src/.  database.py defines    *)
(* neither get_user nor upsert_user, and its log_message takes no          *)
(* direction, broadcast_id, user_id or provider_sid; send_bulk takes no    *)
(* campaign_id.  A call that names one of these raises AttributeError or   *)
(* TypeError at the line of the call, and the model raises there too.      *)
(* whatsapp.py defines no _render_message either, which dashboard.py,      *)
(* cli.py and telegram_bot.py import; its rendering is taken from the      *)
(* specification (RenderFields) and the three modules are modelled from    *)
(* past that import.                                                       *)
(*                                                                         *)
(* Python strings that are scanned or compared character by character      *)
(* (templates, names, phones, provider ids) are sequences of one-character *)
(* strings; the empty Python string is <<>>.  Status and error texts are   *)
(* only compared as a whole and stay TLA+ strings ("" is the empty one).   *)
(*                                                                         *)
(* Time is counted in ticks of 1/MaxRate second.  Every await that         *)
(* suspends a coroutine ends a step, so other coroutines, callbacks and    *)
(* the clock interleave exactly where the event loop lets them.            *)
(***************************************************************************)
EXTENDS Integers, Sequences, FiniteSets, TLC

\* ------------------------------------------------------------------ bounds
MaxRecipients == 2      \* longest recipient list handed to a bulk send
MaxRate == 2            \* largest configured rate (messages per second)
MaxTokenLen == 2        \* longest verify token
WindowTicks == 2        \* clock ticks in the inbound limiter's window

\* --------------------------------------------------------- program constants
ContentLimit == 500     \* body[:500]
MAX_MESSAGES_PER_MINUTE == 10   \* webhook._MAX_MESSAGES_PER_MINUTE
WindowSeconds == 60     \* now - t < 60

\* ------------------------------------------------------------------ strings
EmptyStr == <<>>

PH_NAME  == <<"{", "n", "a", "m", "e", "}">>
PH_PHONE == <<"{", "p", "h", "o", "n", "e", "}">>

Take(s, n) == SubSeq(s, 1, IF Len(s) < n THEN Len(s) ELSE n)

StartsWith(s, p) == Len(s) >= Len(p) /\ SubSeq(s, 1, Len(p)) = p

\* str.replace(old, new): every non-overlapping occurrence, leftmost first.
RECURSIVE Replace(_, _, _)
Replace(s, old, new) ==
    IF Len(s) < Len(old) \/ old = <<>> THEN s
    ELSE IF StartsWith(s, old)
         THEN new \o Replace(SubSeq(s, Len(old) + 1, Len(s)), old, new)
         ELSE <<s[1]>> \o Replace(Tail(s), old, new)

\* The body send_bulk builds for one recipient.
RenderBulk(template, name, phone) ==
    Replace(Replace(template, PH_NAME, name), PH_PHONE, phone)


\* ------------------------------------------------------------------- inputs
P1 == <<"+", "1">>
P2 == <<"+", "2">>
AL == <<"A", "l">>

\* Recipient dictionaries: {"phone": ..., "name": ..., "id": ...}.  The second
\* one's name is the literal text "{phone}".
Recipients == { [phone |-> P1, name |-> AL, id |-> <<1>>],
                [phone |-> P2, name |-> PH_PHONE, id |-> <<2>>] }

RecipientLists == UNION { [1..n -> Recipients] : n \in 0..MaxRecipients }

GreetingTemplate == <<"H", "i", " ">> \o PH_NAME

Templates == { GreetingTemplate,
               PH_PHONE \o <<":">> \o PH_NAME }

\* config.WA_PROVIDER: any lower-cased string; "sms" stands for every value
\* that is neither "twilio" nor "meta".
Providers == {"twilio", "meta", "sms"}

\* config.WA_MESSAGES_PER_SECOND: any integer.
Rates == {-1, 0, 1, MaxRate}

\* The pause 1.0 / rate between two sends, in ticks of 1/MaxRate second.
Interval(rate) == MaxRate \div rate

\* What requests.post(...) followed by resp.json() can give: an exception
\* (timeout, connection error, a body that is not JSON) or an HTTP status
\* with a JSON body.  ids: "id" the body carries the provider's id, "none"
\* it carries none, "empty" (Meta) its messages array is empty.  msg: the
\* text the exception or the error body carries: "text" some text, "empty"
\* the empty text (requests.Timeout() without arguments, a body whose
\* message is ""), "null" a body whose message is null, "none" no message.
TwilioResponses ==
    [kind : {"exception"}, code : {0}, ids : {"none"}, msg : {"text", "empty"}] \cup
    [kind : {"http"}, code : {200, 201}, ids : {"id", "none"}, msg : {"none"}] \cup
    [kind : {"http"}, code : {202}, ids : {"id"}, msg : {"none"}] \cup
    [kind : {"http"}, code : {400}, ids : {"none"}, msg : {"text", "empty", "null"}] \cup
    [kind : {"http"}, code : {500}, ids : {"none"}, msg : {"text"}]

MetaResponses ==
    TwilioResponses \cup [kind : {"http"}, code : {200}, ids : {"empty"}, msg : {"none"}]

\* The provider took the message and gave it an id.
Accepted(resp) == resp.kind = "http" /\ resp.code \in {200, 201, 202} /\ resp.ids = "id"

\* --------------------------------------------------------------- the state
Calls == {"a", "b"}          \* two send_bulk calls on the shared wa_client

VARIABLES
    provider,         \* WhatsAppClient.provider
    rate_limit,       \* WhatsAppClient._rate_limit
    verify_token,     \* config.WA_VERIFY_TOKEN
    admin_ids,        \* config.TELEGRAM_ADMIN_IDS
    call,             \* call[c]: the locals of send_bulk call c and where it stands
    dash,             \* the locals of the dashboard's send loop and where it stands
    since,            \* ticks since the latest provider send of any loop began
    message_log,      \* the message_log table, in id order
    created,          \* created[k]: row k of message_log as log_message inserted it
    nextSid,          \* the next id the provider hands out
    lastApplied,      \* lastApplied[n]: the statuses of the last two callbacks applied to a row with id <<n>>
    handler,          \* handler[h]: status-webhook request h in progress
    response,         \* the latest answer of a webhook endpoint
    missed,           \* the id of the latest status callback handled to the end, when no row carried it
    handshake,        \* the latest GET /webhook request and its answer
    inbound_rate,     \* webhook._inbound_rate: per phone, the ages of the messages let through
    processed,        \* per phone, the ages of the messages that went past the limiter
    dropped,          \* per phone, whether its latest inbound message was dropped by the limiter
    campaign_status,  \* campaigns.status of the campaign being sent
    campaign_message, \* campaigns.message of that campaign
    cli,              \* the locals of cmd_send and where it stands
    conv,             \* conv[u]: the state of user u's /send conversation
    user_data,        \* user_data[u]: context.user_data of user u
    sender,           \* the user whose confirmation reached the send_bulk call
    refused,          \* the users admin_only has turned away
    bot,              \* the handler of the /send conversation in progress and where it stands
    saver             \* the user whose confirmation saved the message on the campaign

configVars == <<provider, rate_limit, verify_token, admin_ids>>
tableVars == <<message_log, created>>
idVars == <<nextSid, lastApplied>>
hookVars == <<handler, response, missed>>
inboundVars == <<inbound_rate, processed, dropped>>
campaignVars == <<campaign_status, campaign_message>>
botVars == <<conv, user_data, sender, refused, bot, saver>>

vars == <<configVars, call, dash, since, tableVars, idVars, hookVars, handshake,
          inboundVars, campaignVars, cli, botVars>>

\* The two status-webhook requests that can be in progress at once.
Handlers == {"h1", "h2"}

IdleHandler == [pc |-> "idle", request |-> <<>>, pending |-> <<>>, unmatched |-> EmptyStr]

\* Senders of inbound WhatsApp messages.
Phones == {P1, P2}

\* Telegram users: one that TELEGRAM_ADMIN_IDS can name and one it never names.
Users == {"admin", "guest"}

NoUserData == [send_campaign_id |-> 0, send_contacts |-> <<>>, send_message |-> EmptyStr]

NeverApplied == [prev |-> "none", status |-> "none"]

NoResult == [sid |-> EmptyStr, status |-> "", error |-> ""]

\* No GET /webhook request has been answered yet.
NoHandshake == [mode |-> "", token |-> EmptyStr, challenge |-> EmptyStr,
                code |-> 0, body |-> EmptyStr]

\* send_bulk not called yet.  results is the dict the call returns, progress
\* the argument lists on_progress has been called with, gap the ticks between
\* the start of the call's latest send and of the send before it.
IdleCall == [pc |-> "idle", recipients |-> <<>>, message_template |-> EmptyStr,
             i |-> 0, body |-> EmptyStr, result |-> NoResult,
             results |-> [sent |-> 0, failed |-> 0, results |-> <<>>],
             progress |-> <<>>, gap |-> MaxRate, exc |-> ""]

\* The "Envoyer" button not pressed yet.
IdleDash == [pc |-> "idle", contacts |-> <<>>, message |-> EmptyStr,
             i |-> 0, body |-> EmptyStr, result |-> NoResult,
             sent |-> 0, failed |-> 0, progress |-> <<>>, gap |-> MaxRate, exc |-> ""]

\* No handler of the bot in progress.  The Application is built without
\* concurrent_updates, so it handles one update at a time.
IdleBot == [pc |-> "idle", user |-> "", campaign_id |-> 0]

\* cmd_send not started yet.
IdleCli == [pc |-> "idle", dry_run |-> FALSE, message |-> EmptyStr, contacts |-> <<>>]

\* Everything but the configuration, as it is when the program starts.
InitParts ==
    /\ call = [c \in Calls |-> IdleCall]
    /\ dash = IdleDash
    /\ since = MaxRate
    /\ message_log = <<>>
    /\ created = <<>>
    /\ nextSid = 1
    /\ lastApplied = <<>>
    /\ handler = [h \in Handlers |-> IdleHandler]
    /\ response = ""
    /\ missed = EmptyStr
    /\ handshake = NoHandshake
    /\ inbound_rate = [p \in Phones |-> <<>>]
    /\ processed = [p \in Phones |-> <<>>]
    /\ dropped = [p \in Phones |-> FALSE]
    /\ campaign_status = "draft"
    /\ campaign_message = EmptyStr
    /\ cli = IdleCli
    /\ conv = [u \in Users |-> "END"]
    /\ user_data = [u \in Users |-> NoUserData]
    /\ sender = ""
    /\ refused = {}
    /\ bot = IdleBot
    /\ saver = ""

Init ==
    /\ provider \in Providers
    /\ rate_limit \in Rates
    /\ verify_token = EmptyStr
    /\ admin_ids = {}
    /\ InitParts

\* Python's None, as the value of an outcome's "error" and of a row's
\* error_message (NULL).
None == "None"

\* str(e) in the except clause: the text of the exception, which is empty
\* when the exception was built without one.
ExceptionText(resp) == IF resp.msg = "empty" THEN "" ELSE "exception"

\* result.get("message", resp.text[:200]): the message of the error body as
\* it stands, empty or null included, and the body's text when it has none.
ErrorMessage(resp) ==
    CASE resp.msg = "empty" -> ""
      [] resp.msg = "null" -> None
      [] OTHER -> "provider message"

\* _send_twilio after the request: the dict it returns.  sid is the id the
\* provider's JSON body carries when it carries one.
SendTwilio(resp, sid) ==
    IF resp.kind = "exception"
    THEN [sid |-> EmptyStr, status |-> "failed", error |-> ExceptionText(resp)]
    ELSE IF resp.code \in {200, 201}
         THEN [sid |-> IF resp.ids = "id" THEN sid ELSE EmptyStr,
               status |-> "sent", error |-> ""]
         ELSE [sid |-> EmptyStr, status |-> "failed", error |-> ErrorMessage(resp)]

\* _send_meta after the request.  result.get("messages", [{}])[0] raises
\* IndexError on an empty messages array, which the except clause catches
\* with the text of the IndexError.
SendMeta(resp, sid) ==
    IF resp.kind = "exception"
    THEN [sid |-> EmptyStr, status |-> "failed", error |-> ExceptionText(resp)]
    ELSE IF resp.code \in {200, 201}
         THEN IF resp.ids = "empty"
              THEN [sid |-> EmptyStr, status |-> "failed", error |-> "exception"]
              ELSE [sid |-> IF resp.ids = "id" THEN sid ELSE EmptyStr,
                    status |-> "sent", error |-> ""]
         ELSE [sid |-> EmptyStr, status |-> "failed", error |-> ErrorMessage(resp)]

\* send_message dispatches on the selector; any other selector raises
\* ValueError before a request is made.
KnownProvider(p) == p \in {"twilio", "meta"}

ResponsesOf(p) == IF p = "twilio" THEN TwilioResponses ELSE MetaResponses

SendMessage(p, resp, sid) ==
    IF p = "twilio" THEN SendTwilio(resp, sid) ELSE SendMeta(resp, sid)

\* ------------------------------------------------------------ the database
\* log_message running its INSERT a second time (a retry after the commit).
LogMessageTwice(log, row) == Append(Append(log, row), row)

\* log_message: one INSERT into message_log.
LogMessage(log, row) == Append(log, row)

\* update_message_status adding a row per status event instead of updating.
UpdateMessageStatusAsInsert(log, wa_message_id, status) ==
    log \o [k \in 1..Len(SelectSeq(log, LAMBDA r : r.wa_message_id = wa_message_id)) |->
              [SelectSeq(log, LAMBDA r : r.wa_message_id = wa_message_id)[k]
                  EXCEPT !.status = status]]

\* The place of a status in the delivery lifecycle.
LifecycleRank(status) ==
    CASE status = "queued" -> 0
      [] status = "sent" -> 1
      [] status = "delivered" -> 2
      [] status = "read" -> 3
      [] OTHER -> 4

\* update_message_status refusing to move a row back in the lifecycle.
UpdateMessageStatusForwardOnly(log, wa_message_id, status) ==
    [k \in 1..Len(log) |->
        IF log[k].wa_message_id = wa_message_id
           /\ LifecycleRank(status) >= LifecycleRank(log[k].status)
        THEN [log[k] EXCEPT !.status = status]
        ELSE log[k]]

\* update_message_status creating a row when none carries the id.
UpdateMessageStatusUpsert(log, wa_message_id, status) ==
    IF \E k \in 1..Len(log) : log[k].wa_message_id = wa_message_id
    THEN [k \in 1..Len(log) |->
            IF log[k].wa_message_id = wa_message_id
            THEN [log[k] EXCEPT !.status = status]
            ELSE log[k]]
    ELSE Append(log, [phone |-> EmptyStr, content |-> EmptyStr, status |-> status,
                      campaign_id |-> "", contact_id |-> <<>>,
                      wa_message_id |-> wa_message_id, error_message |-> ""])

\* update_message_status with its WHERE clause lost: every row is overwritten.
UpdateMessageStatusNoWhere(log, wa_message_id, status) ==
    [k \in 1..Len(log) |-> [log[k] EXCEPT !.status = status]]

\* update_message_status: UPDATE message_log SET status = ? WHERE wa_message_id = ?
UpdateMessageStatus(log, wa_message_id, status) ==
    [k \in 1..Len(log) |->
        IF log[k].wa_message_id = wa_message_id
        THEN [log[k] EXCEPT !.status = status]
        ELSE log[k]]

\* delete_all_contacts taking the contacts' rows of message_log with them.
NullifyContactsCascade(log) == SelectSeq(log, LAMBDA row : row.contact_id = <<>>)

\* delete_all_contacts on message_log: UPDATE message_log SET contact_id = NULL.
NullifyContacts(log) ==
    [k \in 1..Len(log) |-> [log[k] EXCEPT !.contact_id = <<>>]]

\* delete_all_contacts(): of the tables it writes, message_log is the one the

\* delete_all_contacts(): of the tables it writes, message_log is the one the
\* model holds.
DeleteAllContacts ==
    /\ message_log' = NullifyContacts(message_log)
    /\ UNCHANGED <<configVars, call, dash, since, created, idVars, hookVars, handshake,
                   inboundVars, campaignVars, cli, botVars>>

\* One tick of the clock.
Tick ==
    /\ since < MaxRate
    /\ since' = since + 1
    /\ UNCHANGED <<configVars, call, dash, tableVars, idVars, hookVars, handshake,
                   inboundVars, campaignVars, cli, botVars>>

\* ------------------------------------------------------------- send_bulk
Recipient(c) == call[c].recipients[call[c].i + 1]

\* recipient.get("phone") or "", recipient.get("name") or "": a dictionary
\* without the key gives the empty string.
FieldOf(r, key) == IF key \in DOMAIN r THEN r[key] ELSE EmptyStr

\* send_bulk(recipients, message_template) is called: the results dict is
\* set up and the loop is entered.
StartBulk(c, rs, tpl) ==
    /\ call[c].pc = "idle"
    /\ call' = [call EXCEPT ![c] = [IdleCall EXCEPT !.pc = "loop", !.recipients = rs,
                                                    !.message_template = tpl]]
    /\ UNCHANGED <<configVars, dash, since, tableVars, idVars, hookVars, handshake,
                   inboundVars, campaignVars, cli, botVars>>

\* Next recipient: build the body, then send_message, which hands the request
\* to a worker thread and awaits it.
BulkSend(c) ==
    /\ call[c].pc = "loop"
    /\ call[c].i < Len(call[c].recipients)
    /\ KnownProvider(provider)
    /\ call' = [call EXCEPT ![c] = [@ EXCEPT
                  !.body = RenderBulk(call[c].message_template,
                                      FieldOf(Recipient(c), "name"),
                                      FieldOf(Recipient(c), "phone")),
                  !.gap = since,
                  !.pc = "await_send"]]
    /\ since' = 0
    /\ UNCHANGED <<configVars, dash, tableVars, idVars, hookVars, handshake,
                   inboundVars, campaignVars, cli, botVars>>

\* Next recipient under a selector that is neither "twilio" nor "meta":
\* send_message raises ValueError, which send_bulk does not catch.
BulkUnknownProvider(c) ==
    /\ call[c].pc = "loop"
    /\ call[c].i < Len(call[c].recipients)
    /\ ~KnownProvider(provider)
    /\ call' = [call EXCEPT ![c] = [@ EXCEPT
                  !.body = RenderBulk(call[c].message_template,
                                      FieldOf(Recipient(c), "name"),
                                      FieldOf(Recipient(c), "phone")),
                  !.pc = "raised", !.exc = "ValueError"]]
    /\ UNCHANGED <<configVars, dash, since, tableVars, idVars, hookVars, handshake,
                   inboundVars, campaignVars, cli, botVars>>

\* The provider's answer arrives and send_message returns its dict; the next
\* statement is database.get_user(phone).
BulkResponse(c, resp) ==
    /\ call[c].pc = "await_send"
    /\ resp \in ResponsesOf(provider)
    /\ call' = [call EXCEPT ![c] = [@ EXCEPT
                  !.result = SendMessage(provider, resp, <<nextSid>>),
                  !.pc = "get_user"]]
    /\ nextSid' = IF Accepted(resp) THEN nextSid + 1 ELSE nextSid
    /\ lastApplied' = IF Accepted(resp) THEN Append(lastApplied, NeverApplied) ELSE lastApplied
    /\ UNCHANGED <<configVars, dash, since, tableVars, hookVars, handshake,
                   inboundVars, campaignVars, cli, botVars>>

\* database.get_user(phone): the database module has no get_user, so the
\* attribute lookup raises AttributeError, which send_bulk does not catch.
\* Nothing after this line of the loop body runs: no row is logged, no
\* counter changes, on_progress is not called and no pause is taken.
BulkGetUser(c) ==
    /\ call[c].pc = "get_user"
    /\ call' = [call EXCEPT ![c] = [@ EXCEPT !.pc = "raised", !.exc = "AttributeError"]]
    /\ UNCHANGED <<configVars, dash, since, tableVars, idVars, hookVars, handshake,
                   inboundVars, campaignVars, cli, botVars>>

\* The loop is over: return results.
BulkReturn(c) ==
    /\ call[c].pc = "loop"
    /\ call[c].i = Len(call[c].recipients)
    /\ call' = [call EXCEPT ![c] = [@ EXCEPT !.pc = "done"]]
    /\ UNCHANGED <<configVars, dash, since, tableVars, idVars, hookVars, handshake,
                   inboundVars, campaignVars, cli, botVars>>

\* Every step of a send_bulk call after its start.
BulkSteps(c) ==
    \/ BulkSend(c)
    \/ BulkUnknownProvider(c)
    \/ \E resp \in TwilioResponses \cup MetaResponses : BulkResponse(c, resp)
    \/ BulkGetUser(c)
    \/ BulkReturn(c)

BulkNext(c) ==
    \/ \E rs \in RecipientLists, tpl \in Templates : StartBulk(c, rs, tpl)
    \/ BulkSteps(c)

\* ------------------------------------------ what the callers hand over
BO == <<"B", "o">>

\* f"{first_name} {last_name}".strip(), for names without outer blanks.
DisplayName(first_name, last_name) ==
    IF last_name = EmptyStr THEN first_name
    ELSE IF first_name = EmptyStr THEN last_name
    ELSE first_name \o <<" ">> \o last_name

\* The recipient dictionaries cmd_send, send_confirm and the dashboard build
\* from contacts: {"phone", "first_name", "last_name", "id"}, without a
\* "name" key.
CallerRecipients ==
    { [phone |-> P1, first_name |-> AL, last_name |-> BO, id |-> <<1>>],
      [phone |-> P2, first_name |-> BO, last_name |-> EmptyStr, id |-> <<2>>] }

CallerRecipientLists == UNION { [1..n -> CallerRecipients] : n \in 0..MaxRecipients }

PH_FIRST_NAME == <<"{", "f", "i", "r", "s", "t", "_", "n", "a", "m", "e", "}">>
PH_LAST_NAME  == <<"{", "l", "a", "s", "t", "_", "n", "a", "m", "e", "}">>

\* Campaign messages: the placeholders the prompt of cmd_send lists.
CallerTemplates == { <<"H", "i", " ">> \o PH_FIRST_NAME,
                     PH_NAME \o <<":">> \o PH_PHONE,
                     PH_LAST_NAME }

\* _render_message(message, values) over its four placeholders: each one
\* replaced by its value in one pass over the template; a value is never
\* scanned again.
RECURSIVE RenderFields(_, _, _, _, _)
RenderFields(template, first_name, last_name, phone, name) ==
    IF template = <<>> THEN <<>>
    ELSE IF StartsWith(template, PH_FIRST_NAME)
         THEN first_name \o RenderFields(SubSeq(template, Len(PH_FIRST_NAME) + 1, Len(template)),
                                         first_name, last_name, phone, name)
    ELSE IF StartsWith(template, PH_LAST_NAME)
         THEN last_name \o RenderFields(SubSeq(template, Len(PH_LAST_NAME) + 1, Len(template)),
                                        first_name, last_name, phone, name)
    ELSE IF StartsWith(template, PH_PHONE)
         THEN phone \o RenderFields(SubSeq(template, Len(PH_PHONE) + 1, Len(template)),
                                    first_name, last_name, phone, name)
    ELSE IF StartsWith(template, PH_NAME)
         THEN name \o RenderFields(SubSeq(template, Len(PH_NAME) + 1, Len(template)),
                                   first_name, last_name, phone, name)
    ELSE <<template[1]>> \o RenderFields(Tail(template), first_name, last_name, phone, name)

\* ------------------------------------------------- the dashboard's send loop
\* The campaign the dashboard, cmd_send and the bot work on.
CampaignId == "c1"

DashContact == dash.contacts[dash.i + 1]

\* The body the dashboard renders for contact r.
DashBody(message, r) ==
    RenderFields(message, r.first_name, r.last_name, r.phone,
                 DisplayName(r.first_name, r.last_name))

\* The row the dashboard logs: the contact's own id and the error text.
DashRow(r, body, result, campaign_id) ==
    [phone |-> r.phone, content |-> Take(body, ContentLimit), status |-> result.status,
     campaign_id |-> campaign_id, contact_id |-> r.id,
     wa_message_id |-> result.sid, error_message |-> result.error]

\* "Envoyer" is pressed with the dry-run box ticked: a warning and nothing else.
DashDryRun(cs, msg) ==
    /\ dash.pc = "idle"
    /\ cs # <<>>
    /\ msg # EmptyStr
    /\ dash' = [dash EXCEPT !.pc = "warned", !.contacts = cs, !.message = msg]
    /\ UNCHANGED <<configVars, call, since, tableVars, idVars, hookVars, handshake,
                   inboundVars, campaignVars, cli, botVars>>

\* "Envoyer" is pressed for a real send (the button is disabled without a
\* message or without contacts): the message is saved on the campaign.
DashStart(cs, msg) ==
    /\ dash.pc = "idle"
    /\ cs # <<>>
    /\ msg # EmptyStr
    /\ campaign_message' = msg
    /\ dash' = [dash EXCEPT !.pc = "loop", !.contacts = cs, !.message = msg]
    /\ UNCHANGED <<configVars, call, since, tableVars, idVars, hookVars, handshake,
                   inboundVars, campaign_status, cli, botVars>>

\* "Envoyer" is pressed for a real send and update_campaign_message takes
\* more than the 30 s run_async waits: run_async cancels the future and
\* raises RuntimeError to the page.  The UPDATE, handed to the database's
\* own thread, has been committed or not.
DashStartTimeout(cs, msg, saved) ==
    /\ dash.pc = "idle"
    /\ cs # <<>>
    /\ msg # EmptyStr
    /\ campaign_message' = IF saved THEN msg ELSE campaign_message
    /\ dash' = [dash EXCEPT !.pc = "raised", !.exc = "RuntimeError",
                            !.contacts = cs, !.message = msg]
    /\ UNCHANGED <<configVars, call, since, tableVars, idVars, hookVars, handshake,
                   inboundVars, campaign_status, cli, botVars>>

\* Next contact: render, then run_async(wa.send_message(r["phone"], body)).
\* Nothing waits between one contact and the next.
DashSend ==
    /\ dash.pc = "loop"
    /\ dash.i < Len(dash.contacts)
    /\ KnownProvider(provider)
    /\ dash' = [dash EXCEPT !.body = DashBody(dash.message, DashContact),
                            !.gap = since,
                            !.pc = "await_send"]
    /\ since' = 0
    /\ UNCHANGED <<configVars, call, tableVars, idVars, hookVars, handshake,
                   inboundVars, campaignVars, cli, botVars>>

\* Next contact under an unknown selector: send_message raises ValueError,
\* which run_async passes on to the page.
DashUnknownProvider ==
    /\ dash.pc = "loop"
    /\ dash.i < Len(dash.contacts)
    /\ ~KnownProvider(provider)
    /\ dash' = [dash EXCEPT !.body = DashBody(dash.message, DashContact),
                            !.pc = "raised", !.exc = "ValueError"]
    /\ UNCHANGED <<configVars, call, since, tableVars, idVars, hookVars, handshake,
                   inboundVars, campaignVars, cli, botVars>>

\* The provider's answer arrives and send_message returns its dict.
DashResponse(resp) ==
    /\ dash.pc = "await_send"
    /\ resp \in ResponsesOf(provider)
    /\ dash' = [dash EXCEPT !.result = SendMessage(provider, resp, <<nextSid>>),
                            !.pc = "log"]
    /\ nextSid' = IF Accepted(resp) THEN nextSid + 1 ELSE nextSid
    /\ lastApplied' = IF Accepted(resp) THEN Append(lastApplied, NeverApplied) ELSE lastApplied
    /\ UNCHANGED <<configVars, call, since, tableVars, hookVars, handshake,
                   inboundVars, campaignVars, cli, botVars>>

\* The provider's answer does not arrive within the 30 s run_async waits:
\* run_async raises RuntimeError to the page, which ends there, with no row
\* for the contact.  The request goes on in its thread: the provider takes
\* the message and gives it an id, or does not.
DashSendTimeout(accepted) ==
    /\ dash.pc = "await_send"
    /\ dash' = [dash EXCEPT !.pc = "raised", !.exc = "RuntimeError"]
    /\ nextSid' = IF accepted THEN nextSid + 1 ELSE nextSid
    /\ lastApplied' = IF accepted THEN Append(lastApplied, NeverApplied) ELSE lastApplied
    /\ UNCHANGED <<configVars, call, since, tableVars, hookVars, handshake,
                   inboundVars, campaignVars, cli, botVars>>

\* run_async(database.log_message(...)): the INSERT is committed, or the
\* database fails and the exception reaches the page.  The counters and the
\* progress bar are untouched until log_message has returned.
DashLog(dbOk) ==
    /\ dash.pc = "log"
    /\ IF dbOk
       THEN /\ message_log' = LogMessage(message_log,
                                DashRow(DashContact, dash.body, dash.result, CampaignId))
            /\ created' = Append(created,
                                 DashRow(DashContact, dash.body, dash.result, CampaignId))
            /\ dash' = [dash EXCEPT !.pc = "count"]
       ELSE /\ message_log' = message_log
            /\ created' = created
            /\ dash' = [dash EXCEPT !.pc = "raised", !.exc = "log_message failed"]
    /\ UNCHANGED <<configVars, call, since, idVars, hookVars, handshake,
                   inboundVars, campaignVars, cli, botVars>>

\* log_message takes more than the 30 s run_async waits: RuntimeError reaches
\* the page.  The INSERT, handed to the database's own thread, has been
\* committed or not.
DashLogTimeout(committed) ==
    /\ dash.pc = "log"
    /\ message_log' = IF committed
                      THEN LogMessage(message_log,
                                      DashRow(DashContact, dash.body, dash.result, CampaignId))
                      ELSE message_log
    /\ created' = IF committed
                  THEN Append(created, DashRow(DashContact, dash.body, dash.result, CampaignId))
                  ELSE created
    /\ dash' = [dash EXCEPT !.pc = "raised", !.exc = "RuntimeError"]
    /\ UNCHANGED <<configVars, call, since, idVars, hookVars, handshake,
                   inboundVars, campaignVars, cli, botVars>>

\* log_message has returned: count the outcome, move the progress bar, and
\* go straight on to the next contact.
DashCount ==
    /\ dash.pc = "count"
    /\ dash' = [dash EXCEPT
                  !.sent = IF dash.result.status = "sent" THEN @ + 1 ELSE @,
                  !.failed = IF dash.result.status = "sent" THEN @ ELSE @ + 1,
                  !.progress = Append(@, <<dash.i + 1, Len(dash.contacts)>>),
                  !.i = @ + 1,
                  !.pc = "loop"]
    /\ UNCHANGED <<configVars, call, since, tableVars, idVars, hookVars, handshake,
                   inboundVars, campaignVars, cli, botVars>>

\* The loop is over: run_async(database.update_campaign_status(campaign_id, "sent")).
DashDone ==
    /\ dash.pc = "loop"
    /\ dash.i = Len(dash.contacts)
    /\ campaign_status' = "sent"
    /\ dash' = [dash EXCEPT !.pc = "done"]
    /\ UNCHANGED <<configVars, call, since, tableVars, idVars, hookVars, handshake,
                   inboundVars, campaign_message, cli, botVars>>

\* The loop is over and update_campaign_status takes more than the 30 s
\* run_async waits: RuntimeError reaches the page, the UPDATE committed or not.
DashDoneTimeout(updated) ==
    /\ dash.pc = "loop"
    /\ dash.i = Len(dash.contacts)
    /\ campaign_status' = IF updated THEN "sent" ELSE campaign_status
    /\ dash' = [dash EXCEPT !.pc = "raised", !.exc = "RuntimeError"]
    /\ UNCHANGED <<configVars, call, since, tableVars, idVars, hookVars, handshake,
                   inboundVars, campaign_message, cli, botVars>>

\* Every step of the dashboard's loop after the button.
DashSteps ==
    \/ DashSend
    \/ DashUnknownProvider
    \/ \E resp \in TwilioResponses \cup MetaResponses : DashResponse(resp)
    \/ \E accepted \in BOOLEAN : DashSendTimeout(accepted)
    \/ \E dbOk \in BOOLEAN : DashLog(dbOk)
    \/ \E committed \in BOOLEAN : DashLogTimeout(committed)
    \/ DashCount
    \/ DashDone
    \/ \E updated \in BOOLEAN : DashDoneTimeout(updated)

DashNext ==
    \/ \E cs \in CallerRecipientLists, msg \in CallerTemplates : DashDryRun(cs, msg)
    \/ \E cs \in CallerRecipientLists, msg \in CallerTemplates : DashStart(cs, msg)
    \/ \E cs \in CallerRecipientLists, msg \in CallerTemplates, saved \in BOOLEAN :
          DashStartTimeout(cs, msg, saved)
    \/ DashSteps

\* ------------------------------------------------- the inbound rate limiter
\* The limiter's clock advances in ticks of WindowSeconds / WindowTicks
\* seconds; a timestamp t is held as its age now - t, in ticks.
TickSeconds == WindowSeconds \div WindowTicks

\* [t for t in _inbound_rate[phone] if now - t < 60]
Prune(times) == SelectSeq(times, LAMBDA age : age * TickSeconds < WindowSeconds)

\* The limit test with > for >=.
RateLimitedAbove(times) == Len(times) > MAX_MESSAGES_PER_MINUTE

\* len(_inbound_rate[phone]) >= _MAX_MESSAGES_PER_MINUTE
RateLimited(times) == Len(times) >= MAX_MESSAGES_PER_MINUTE

\* The limiter's tables as a handler sees them; raised tells whether the
\* handler has left with an exception.
Inbound == [inbound_rate |-> inbound_rate, processed |-> processed,
            dropped |-> dropped, raised |-> FALSE]

\* handle_incoming_message(phone, text, name): prune the window; when it is
\* full, drop the message and return; else add the message to the window and
\* go on to database.upsert_user(...).  The database module has no
\* upsert_user, so the message that passed the limiter raises AttributeError
\* there: no user is registered, nothing is logged and no reply is sent.
\* Nothing in the function suspends before that line.
HandleIncomingMessage(st, phone) ==
    IF RateLimited(Prune(st.inbound_rate[phone]))
    THEN [st EXCEPT !.inbound_rate[phone] = Prune(@),
                    !.dropped[phone] = TRUE]
    ELSE [st EXCEPT !.inbound_rate[phone] = Append(Prune(@), 0),
                    !.processed[phone] = Append(@, 0),
                    !.dropped[phone] = FALSE,
                    !.raised = TRUE]

\* One tick of the limiter's clock: every timestamp is one tick older.  An
\* age past the window stays at WindowTicks; a message past the window is in
\* no window that is still open.
InboundTick ==
    /\ inbound_rate' = [p \in Phones |->
                          [k \in 1..Len(inbound_rate[p]) |->
                              IF inbound_rate[p][k] < WindowTicks
                              THEN inbound_rate[p][k] + 1 ELSE WindowTicks]]
    /\ processed' = [p \in Phones |->
                       SelectSeq([k \in 1..Len(processed[p]) |-> processed[p][k] + 1],
                                 LAMBDA age : age < WindowTicks)]
    /\ UNCHANGED <<configVars, call, dash, since, tableVars, idVars, hookVars, handshake,
                   dropped, campaignVars, cli, botVars>>

\* -------------------------------------------------- the webhook endpoints
\* Message ids a callback can carry: none, an id the provider never gave to
\* this program (<<0>>), or one it gave.
CallbackSids == {EmptyStr, <<0>>} \cup { <<n>> : n \in 1..(nextSid - 1) }

\* Status strings a callback can carry: none, two words both providers use,
\* and one of Twilio's own.
CallbackStatuses == {"", "sent", "delivered", "undelivered"}

StatusUpdates == [id : CallbackSids, status : CallbackStatuses]

\* "if sid and status" reduced to "if status".
ApplicableAnyId(u) == u.status # ""

\* "if sid and status": both are non-empty.
Applicable(u) == u.id # EmptyStr /\ u.status # ""

\* The status objects of a request that lead to a database call.
ApplicableOf(updates) == SelectSeq(updates, Applicable)

HasRow(log, sid) == \E k \in 1..Len(log) : log[k].wa_message_id = sid

\* lastApplied after update u has been run on table log: the update counts
\* for its id when a row carries that id.
NoteUpdate(last, log, u) ==
    IF HasRow(log, u.id)
    THEN [last EXCEPT ![u.id[1]] = [prev |-> @.status, status |-> u.status]]
    ELSE last

\* str(form.get("From", "")).replace("whatsapp:", "")
WA_PREFIX == <<"w", "h", "a", "t", "s", "a", "p", "p", ":">>
TwilioPhone(from) == Replace(from, WA_PREFIX, EmptyStr)

\* phone = msg.get("from", ""); a "+" is put in front when there is none.
MetaPhone(from) ==
    IF from # EmptyStr /\ ~StartsWith(from, <<"+">>) THEN <<"+">> \o from ELSE from

\* The messages of a Meta body, in order, each with a text passed to
\* handle_incoming_message; the loop ends with the first one that raises.
RECURSIVE RunMessages(_, _)
RunMessages(st, messages) ==
    IF messages = <<>> \/ st.raised THEN st
    ELSE RunMessages(IF Head(messages).text # EmptyStr
                     THEN HandleIncomingMessage(st, MetaPhone(Head(messages).from))
                     ELSE st,
                     Tail(messages))

\* POST /twilio-webhook with form fields From and Body.  Without a phone or
\* without a text, and for a message the limiter drops, the answer is the
\* empty TwiML document; a message that passes the limiter ends the request
\* with the AttributeError, which FastAPI answers with 500.
TwilioIncoming(from, text) ==
    /\ LET st == IF TwilioPhone(from) # EmptyStr /\ text # EmptyStr
                 THEN HandleIncomingMessage(Inbound, TwilioPhone(from))
                 ELSE Inbound
       IN  /\ inbound_rate' = st.inbound_rate
           /\ processed' = st.processed
           /\ dropped' = st.dropped
           /\ response' = IF st.raised THEN "500" ELSE "xml"
    /\ missed' = EmptyStr
    /\ UNCHANGED <<configVars, call, dash, since, tableVars, idVars, handler, handshake,
                   campaignVars, cli, botVars>>

\* POST /twilio-status with form fields MessageSid and MessageStatus, as
\* request h: an update with an empty id or an empty status is skipped.
TwilioStatus(h, sid, status) ==
    /\ handler[h].pc = "idle"
    /\ handler' = [handler EXCEPT ![h] =
                     [pc |-> "run", request |-> << [id |-> sid, status |-> status] >>,
                      pending |-> ApplicableOf(<< [id |-> sid, status |-> status] >>),
                      unmatched |-> EmptyStr]]
    /\ UNCHANGED <<configVars, call, dash, since, tableVars, idVars, response, missed,
                   handshake, inboundVars, campaignVars, cli, botVars>>

\* POST /webhook, as request h, with a JSON body of one change that carries
\* these messages and these status objects.  The messages come first: one
\* that passes the limiter ends the request with the AttributeError (500)
\* before any status is looked at.  When every message is dropped or has no
\* text, the status objects with an id and a status are left to be applied,
\* one awaited UPDATE at a time.
MetaWebhook(h, messages, statuses) ==
    /\ handler[h].pc = "idle"
    /\ LET st == RunMessages(Inbound, messages)
       IN  /\ inbound_rate' = st.inbound_rate
           /\ processed' = st.processed
           /\ dropped' = st.dropped
           /\ IF st.raised
              THEN /\ response' = "500"
                   /\ missed' = EmptyStr
                   /\ handler' = handler
              ELSE /\ handler' = [handler EXCEPT ![h] =
                                    [pc |-> "run", request |-> statuses,
                                     pending |-> ApplicableOf(statuses),
                                     unmatched |-> EmptyStr]]
                   /\ UNCHANGED <<response, missed>>
    /\ UNCHANGED <<configVars, call, dash, since, tableVars, idVars, handshake,
                   campaignVars, cli, botVars>>

\* POST /webhook with a body that is not JSON.
MetaWebhookBadJson ==
    /\ response' = "error"
    /\ missed' = EmptyStr
    /\ UNCHANGED <<configVars, call, dash, since, tableVars, idVars, handler, handshake,
                   inboundVars, campaignVars, cli, botVars>>

\* The next update of request h: one UPDATE statement, or the database's
\* failure, which FastAPI answers with 500.
HandlerUpdate(h, dbOk) ==
    /\ handler[h].pc = "run"
    /\ handler[h].pending # <<>>
    /\ IF dbOk
       THEN /\ message_log' = UpdateMessageStatus(message_log, Head(handler[h].pending).id,
                                                  Head(handler[h].pending).status)
            /\ lastApplied' = NoteUpdate(lastApplied, message_log, Head(handler[h].pending))
            /\ handler' = [handler EXCEPT ![h] = [@ EXCEPT
                              !.pending = Tail(@),
                              !.unmatched = IF HasRow(message_log, Head(handler[h].pending).id)
                                            THEN @ ELSE Head(handler[h].pending).id]]
            /\ UNCHANGED <<response, missed>>
       ELSE /\ handler' = [handler EXCEPT ![h] = IdleHandler]
            /\ response' = "500"
            /\ missed' = EmptyStr
            /\ UNCHANGED <<message_log, lastApplied>>
    /\ UNCHANGED <<configVars, call, dash, since, created, nextSid, handshake,
                   inboundVars, campaignVars, cli, botVars>>

\* Request h has no update left: return {"status": "ok"}.
HandlerReturn(h) ==
    /\ handler[h].pc = "run"
    /\ handler[h].pending = <<>>
    /\ response' = "ok"
    /\ missed' = handler[h].unmatched
    /\ handler' = [handler EXCEPT ![h] = IdleHandler]
    /\ UNCHANGED <<configVars, call, dash, since, tableVars, idVars, handshake,
                   inboundVars, campaignVars, cli, botVars>>

\* Bodies of a Meta POST: no status object, one, or two for the same id with
\* the later lifecycle stage first.
StatusLists ==
    {<<>>} \cup { <<u>> : u \in StatusUpdates }
           \cup { << [id |-> sid, status |-> "delivered"], [id |-> sid, status |-> "sent"] >> :
                  sid \in CallbackSids \ {EmptyStr} }

\* ------------------------------------------------- cmd_send of the CLI
\* cmd_send up to its last prompt: the campaign's contacts, the message
\* (typed or taken from a template), the dry-run answer and, for a real
\* send, the confirmation.  Without contacts, without a message or on a
\* refusal it returns with nothing written.
CmdSendPrompts(contacts, message, dry_run, confirm) ==
    /\ cli.pc = "idle"
    /\ cli' = [pc |-> IF contacts = <<>> \/ message = EmptyStr \/ (~dry_run /\ ~confirm)
                      THEN "cancelled" ELSE "save",
               dry_run |-> dry_run, message |-> message, contacts |-> contacts]
    /\ UNCHANGED <<configVars, call, dash, since, tableVars, idVars, hookVars, handshake,
                   inboundVars, campaignVars, botVars>>

\* await database.update_campaign_message(campaign_id, message)
CmdSendSave ==
    /\ cli.pc = "save"
    /\ campaign_message' = cli.message
    /\ cli' = [cli EXCEPT !.pc = "sending"]
    /\ UNCHANGED <<configVars, call, dash, since, tableVars, idVars, hookVars, handshake,
                   inboundVars, campaign_status, botVars>>

\* await database.update_campaign_status(campaign_id, "sending")
CmdSendSending ==
    /\ cli.pc = "sending"
    /\ campaign_status' = "sending"
    /\ cli' = [cli EXCEPT !.pc = IF cli.dry_run THEN "dry_run" ELSE "send"]
    /\ UNCHANGED <<configVars, call, dash, since, tableVars, idVars, hookVars, handshake,
                   inboundVars, campaign_message, botVars>>

\* The dry-run branch: print the preview, set the campaign back to 'draft',
\* return.
CmdSendDryRun ==
    /\ cli.pc = "dry_run"
    /\ campaign_status' = "draft"
    /\ cli' = [cli EXCEPT !.pc = "returned"]
    /\ UNCHANGED <<configVars, call, dash, since, tableVars, idVars, hookVars, handshake,
                   inboundVars, campaign_message, botVars>>

\* The real send: wa_client.send_bulk(recipients=..., message_template=...,
\* campaign_id=..., on_progress=...).  send_bulk has no campaign_id
\* parameter, so the call raises TypeError before send_bulk runs; nothing in
\* cmd_send or in its caller catches it, and the update to 'sent' after the
\* call is never reached.
CmdSendBulk ==
    /\ cli.pc = "send"
    /\ cli' = [cli EXCEPT !.pc = "raised"]
    /\ UNCHANGED <<configVars, call, dash, since, tableVars, idVars, hookVars, handshake,
                   inboundVars, campaignVars, botVars>>

\* ------------------------------------------------- the Telegram /send conversation
\* The admin test with every user accepted.
IsAdminAnyone(u) == TRUE

\* update.effective_user.id in config.TELEGRAM_ADMIN_IDS
IsAdmin(u) == u \in admin_ids

\* The texts send_confirm takes for a yes, and the answers users give
\* (already stripped and in lower case).
ConfirmWords == {"oui", "yes", "ok"}
Answers == {"oui", "non"}

\* The admin test each handler of the /send conversation begins with:
\* admin_only around send_start, and the first test of send_select_campaign
\* (after query.answer()), send_compose and send_confirm.  The handler goes
\* on when it holds and returns ConversationHandler.END when it does not.
SendStartGoesOn(u) == IsAdmin(u)
SendSelectCampaignGoesOn(u) == IsAdmin(u)
SendComposeGoesOn(u) == IsAdmin(u)

\* Whether send_confirm goes on to the send: an admin, a yes, and contacts
\* and a message in user_data.
SendConfirmGoesOn(u, text) ==
    /\ IsAdmin(u)
    /\ text \in ConfirmWords
    /\ user_data[u].send_contacts # <<>>
    /\ user_data[u].send_message # EmptyStr

\* /send from user u, outside a conversation.  admin_only answers a user who
\* is not an admin "Acces refuse" and ends; for an admin send_start goes on to
\* await database.get_all_campaigns().
SendStart(u) ==
    /\ bot.pc = "idle"
    /\ conv[u] = "END"
    /\ IF SendStartGoesOn(u)
       THEN /\ bot' = [pc |-> "get_all_campaigns", user |-> u, campaign_id |-> 0]
            /\ refused' = refused
       ELSE /\ bot' = bot
            /\ refused' = refused \cup {u}
    /\ UNCHANGED <<configVars, call, dash, since, tableVars, idVars, hookVars, handshake,
                   inboundVars, campaignVars, cli, conv, user_data, sender, saver>>

\* get_all_campaigns comes back.  The database fails: the handler raises and
\* the conversation stays where it is.  No campaign: a reply, then END.
\* Otherwise send_start goes on to reply with the keyboard.
SendStartCampaigns(has_campaigns, ok) ==
    /\ bot.pc = "get_all_campaigns"
    /\ bot' = IF ok /\ has_campaigns THEN [bot EXCEPT !.pc = "start_reply"] ELSE IdleBot
    /\ UNCHANGED <<configVars, call, dash, since, tableVars, idVars, hookVars, handshake,
                   inboundVars, campaignVars, cli, conv, user_data, sender, refused, saver>>

\* reply_text with the keyboard: sent, and send_start returns SEND_CAMPAIGN,
\* or the request fails and the handler raises, which leaves the
\* conversation where it is.
SendStartReply(ok) ==
    /\ bot.pc = "start_reply"
    /\ conv' = IF ok THEN [conv EXCEPT ![bot.user] = "SEND_CAMPAIGN"] ELSE conv
    /\ bot' = IdleBot
    /\ UNCHANGED <<configVars, call, dash, since, tableVars, idVars, hookVars, handshake,
                   inboundVars, campaignVars, cli, user_data, sender, refused, saver>>

\* User u presses the button of campaign campaign_id: send_select_campaign
\* begins with await query.answer().
SendSelectCampaign(u, campaign_id) ==
    /\ bot.pc = "idle"
    /\ conv[u] = "SEND_CAMPAIGN"
    /\ bot' = [pc |-> "answer", user |-> u, campaign_id |-> campaign_id]
    /\ UNCHANGED <<configVars, call, dash, since, tableVars, idVars, hookVars, handshake,
                   inboundVars, campaignVars, cli, conv, user_data, sender, refused, saver>>

\* query.answer() comes back (or fails: the handler raises).  Then the admin
\* test, and for an admin user_data["send_campaign_id"] is stored before
\* await database.get_contacts_for_campaign(campaign_id).  The button's data
\* matches ^send_\d+$, so int() does not fail.
SendSelectAnswer(ok) ==
    /\ bot.pc = "answer"
    /\ IF ~ok
       THEN /\ bot' = IdleBot
            /\ UNCHANGED <<conv, user_data>>
       ELSE IF ~SendSelectCampaignGoesOn(bot.user)
       THEN /\ bot' = IdleBot
            /\ conv' = [conv EXCEPT ![bot.user] = "END"]
            /\ user_data' = user_data
       ELSE /\ bot' = [bot EXCEPT !.pc = "get_contacts"]
            /\ conv' = conv
            /\ user_data' = [user_data EXCEPT ![bot.user].send_campaign_id = bot.campaign_id]
    /\ UNCHANGED <<configVars, call, dash, since, tableVars, idVars, hookVars, handshake,
                   inboundVars, campaignVars, cli, sender, refused, saver>>

\* get_contacts_for_campaign comes back.  The database fails: the handler
\* raises.  No contact: edit_message_text, then END (the conversation stays
\* where it is when that request fails).  Otherwise user_data["send_contacts"]
\* is stored and the handler goes on to the templates.
SendSelectContacts(contacts, ok, replied) ==
    /\ bot.pc = "get_contacts"
    /\ IF ~ok
       THEN /\ bot' = IdleBot
            /\ UNCHANGED <<conv, user_data>>
       ELSE IF contacts = <<>>
       THEN /\ bot' = IdleBot
            /\ conv' = IF replied THEN [conv EXCEPT ![bot.user] = "END"] ELSE conv
            /\ user_data' = user_data
       ELSE /\ bot' = [bot EXCEPT !.pc = "offer"]
            /\ conv' = conv
            /\ user_data' = [user_data EXCEPT ![bot.user].send_contacts = contacts]
    /\ UNCHANGED <<configVars, call, dash, since, tableVars, idVars, hookVars, handshake,
                   inboundVars, campaignVars, cli, sender, refused, saver>>

\* await database.get_all_templates(), then await query.edit_message_text:
\* nothing is stored between the two.  Both come back and the handler returns
\* SEND_MESSAGE, or one fails and the handler raises.
SendSelectOffer(ok) ==
    /\ bot.pc = "offer"
    /\ conv' = IF ok THEN [conv EXCEPT ![bot.user] = "SEND_MESSAGE"] ELSE conv
    /\ bot' = IdleBot
    /\ UNCHANGED <<configVars, call, dash, since, tableVars, idVars, hookVars, handshake,
                   inboundVars, campaignVars, cli, user_data, sender, refused, saver>>

\* User u writes the message (a text that is not a command: the handler is
\* registered with filters.TEXT & ~filters.COMMAND, so a "/tpl_..." text does
\* not get to it).  After the admin test user_data["send_message"] is stored
\* and the preview is sent with await reply_text.
SendCompose(u, text) ==
    /\ bot.pc = "idle"
    /\ conv[u] = "SEND_MESSAGE"
    /\ IF ~SendComposeGoesOn(u)
       THEN /\ bot' = bot
            /\ conv' = [conv EXCEPT ![u] = "END"]
            /\ user_data' = user_data
       ELSE /\ bot' = [pc |-> "compose_reply", user |-> u, campaign_id |-> 0]
            /\ conv' = conv
            /\ user_data' = [user_data EXCEPT ![u].send_message = text]
    /\ UNCHANGED <<configVars, call, dash, since, tableVars, idVars, hookVars, handshake,
                   inboundVars, campaignVars, cli, sender, refused, saver>>

\* The preview: sent, and send_compose returns SEND_CONFIRM, or the request
\* fails and the handler raises with the message already stored.
SendComposeReply(ok) ==
    /\ bot.pc = "compose_reply"
    /\ conv' = IF ok THEN [conv EXCEPT ![bot.user] = "SEND_CONFIRM"] ELSE conv
    /\ bot' = IdleBot
    /\ UNCHANGED <<configVars, call, dash, since, tableVars, idVars, hookVars, handshake,
                   inboundVars, campaignVars, cli, user_data, sender, refused, saver>>

\* User u answers the confirmation.  Not an admin: END.  Not a yes, or data
\* missing: a reply, then END (the conversation stays where it is when the
\* reply fails).  Otherwise the handler goes on to save the message on the
\* campaign when the campaign id is not 0, and to its status message.
SendConfirm(u, text, replied) ==
    /\ bot.pc = "idle"
    /\ conv[u] = "SEND_CONFIRM"
    /\ IF ~IsAdmin(u)
       THEN /\ bot' = bot
            /\ conv' = [conv EXCEPT ![u] = "END"]
       ELSE IF ~SendConfirmGoesOn(u, text)
       THEN /\ bot' = bot
            /\ conv' = IF replied THEN [conv EXCEPT ![u] = "END"] ELSE conv
       ELSE /\ bot' = [pc |-> IF user_data[u].send_campaign_id # 0
                              THEN "update_campaign_message" ELSE "confirm_reply",
                       user |-> u, campaign_id |-> user_data[u].send_campaign_id]
            /\ conv' = conv
    /\ UNCHANGED <<configVars, call, dash, since, tableVars, idVars, hookVars, handshake,
                   inboundVars, campaignVars, cli, user_data, sender, refused, saver>>

\* await database.update_campaign_message(campaign_id, message): committed,
\* or the database fails and the handler raises.
SendConfirmSave(ok) ==
    /\ bot.pc = "update_campaign_message"
    /\ campaign_message' = IF ok THEN user_data[bot.user].send_message ELSE campaign_message
    /\ saver' = IF ok THEN bot.user ELSE saver
    /\ bot' = IF ok THEN [bot EXCEPT !.pc = "confirm_reply"] ELSE IdleBot
    /\ UNCHANGED <<configVars, call, dash, since, tableVars, idVars, hookVars, handshake,
                   inboundVars, campaign_status, cli, conv, user_data, sender, refused>>

\* await reply_text("Envoi en cours..."): the request fails and the handler
\* raises, or it is sent and the handler calls
\* wa_client.send_bulk(..., campaign_id=...), which raises TypeError as in
\* cmd_send: send_bulk does not run, the update to 'sent' is never reached,
\* and the handler returns no state, so the conversation stays where it is.
SendConfirmBulk(replied) ==
    /\ bot.pc = "confirm_reply"
    /\ sender' = IF replied THEN bot.user ELSE sender
    /\ bot' = IdleBot
    /\ UNCHANGED <<configVars, call, dash, since, tableVars, idVars, hookVars, handshake,
                   inboundVars, campaignVars, cli, conv, user_data, refused, saver>>

\* /cancel from user u inside a conversation: a reply, then END; the
\* conversation stays where it is when the reply fails.
Cancel(u, replied) ==
    /\ bot.pc = "idle"
    /\ conv[u] # "END"
    /\ conv' = IF replied THEN [conv EXCEPT ![u] = "END"] ELSE conv
    /\ UNCHANGED <<configVars, call, dash, since, tableVars, idVars, hookVars, handshake,
                   inboundVars, campaignVars, cli, user_data, sender, refused, bot, saver>>

\* ------------------------------------------------- the verification handshake
\* Characters of a verify token: an ASCII one and one that is not ASCII.
TokenChars == {"a", "é"}

NonAscii == {"é"}

\* Values of hub.verify_token and of WA_VERIFY_TOKEN: every string of at most
\* MaxTokenLen characters, the empty one (parameter or variable absent) included.
Tokens == UNION { [1..n -> TokenChars] : n \in 0..MaxTokenLen }

\* Values of hub.mode; "" when the parameter is absent.
Modes == {"subscribe", "unsubscribe", ""}

\* Values of hub.challenge; the empty one when the parameter is absent.
Challenges == {EmptyStr, <<"4", "2">>}

IsAscii(s) == \A k \in 1..Len(s) : s[k] \notin NonAscii

\* hmac.compare_digest(a, b) on two str: TypeError unless both are ASCII.
CompareDigest(a, b) ==
    IF ~IsAscii(a) \/ ~IsAscii(b) THEN "TypeError"
    ELSE IF a = b THEN "equal" ELSE "different"

\* The page the server answers with when a handler raises.
InternalServerError == <<"I", "n", "t", "e", "r", "n", "a", "l", " ",
                         "S", "e", "r", "v", "e", "r", " ", "E", "r", "r", "o", "r">>

\* meta_verify without the test that a token is configured.
MetaVerifyResponseUnguarded(mode, token, challenge, configured) ==
    IF mode = "subscribe"
    THEN CASE CompareDigest(token, configured) = "TypeError" ->
                 [code |-> 500, body |-> InternalServerError]
           [] CompareDigest(token, configured) = "equal" ->
                 [code |-> 200, body |-> challenge]
           [] OTHER -> [code |-> 403, body |-> EmptyStr]
    ELSE [code |-> 403, body |-> EmptyStr]

\* meta_verify: the status code and the body of the answer.  The "and" chain
\* stops at the first false operand, so compare_digest is reached only under
\* mode "subscribe" and a configured token that is not empty.
MetaVerifyResponse(mode, token, challenge, configured) ==
    IF mode = "subscribe" /\ configured # EmptyStr
    THEN CASE CompareDigest(token, configured) = "TypeError" ->
                 [code |-> 500, body |-> InternalServerError]
           [] CompareDigest(token, configured) = "equal" ->
                 [code |-> 200, body |-> challenge]
           [] OTHER -> [code |-> 403, body |-> EmptyStr]
    ELSE [code |-> 403, body |-> EmptyStr]

\* GET /webhook?hub.mode=..&hub.verify_token=..&hub.challenge=..
MetaVerify(mode, token, challenge) ==
    /\ handshake' = [mode |-> mode, token |-> token, challenge |-> challenge,
                     code |-> MetaVerifyResponse(mode, token, challenge, verify_token).code,
                     body |-> MetaVerifyResponse(mode, token, challenge, verify_token).body]
    /\ UNCHANGED <<configVars, call, dash, since, tableVars, idVars, hookVars,
                   inboundVars, campaignVars, cli, botVars>>

\* ------------------------------------------------------- specifications
\* One send_bulk call.
Next == BulkNext("a")
Spec == Init /\ [][Next]_vars

\* One send_bulk call over the recipient dictionaries the callers build.
NextCallers ==
    \/ \E rs \in CallerRecipientLists, tpl \in CallerTemplates : StartBulk("a", rs, tpl)
    \/ BulkSteps("a")
SpecCallers == Init /\ [][NextCallers]_vars

\* Two send_bulk calls on the one wa_client, each for at most one recipient,
\* and the clock.
NextConcurrent ==
    \/ \E c \in Calls, rs \in { l \in RecipientLists : Len(l) <= 1 } :
          StartBulk(c, rs, GreetingTemplate)
    \/ \E c \in Calls : BulkSteps(c)
    \/ Tick
SpecConcurrent == Init /\ [][NextConcurrent]_vars

\* One send_bulk call through a known provider and Twilio status requests
\* for the ids the provider has given out.
InitDispatch == Init /\ provider \in {"twilio", "meta"} /\ rate_limit = 1
NextDispatch ==
    \/ \E rs \in RecipientLists, tpl \in Templates : StartBulk("a", rs, tpl)
    \/ BulkSend("a")
    \/ \E resp \in TwilioResponses \cup MetaResponses : BulkResponse("a", resp)
    \/ BulkGetUser("a")
    \/ BulkReturn("a")
    \/ \E sid \in CallbackSids \ {EmptyStr} : TwilioStatus("h1", sid, "delivered")
    \/ \E dbOk \in BOOLEAN : HandlerUpdate("h1", dbOk)
    \/ HandlerReturn("h1")
SpecDispatch == InitDispatch /\ [][NextDispatch]_vars

\* The dashboard's send loop and the clock.
NextDashboard == DashNext \/ Tick
SpecDashboard == Init /\ [][NextDashboard]_vars

\* One contact, listed up to MaxRecipients times, and one message: what the
\* dashboard sends where only the rows of the table matter.
OneContactLists ==
    { [k \in 1..n |-> [phone |-> P1, first_name |-> AL, last_name |-> BO, id |-> <<1>>]] :
        n \in 1..MaxRecipients }
OneMessage == <<"H", "i", " ">> \o PH_FIRST_NAME

\* The dashboard's send loop through Twilio, each message accepted (201 with
\* an id) or rejected (400), and the status requests of both surfaces, one
\* request at a time.
InitReconcile == Init /\ provider = "twilio" /\ rate_limit = 0
NextReconcile ==
    \/ \E cs \in OneContactLists : DashStart(cs, OneMessage)
    \/ DashSend
    \/ \E resp \in { [kind |-> "http", code |-> 201, ids |-> "id", msg |-> "none"],
                      [kind |-> "http", code |-> 400, ids |-> "none", msg |-> "text"] } : DashResponse(resp)
    \/ \E accepted \in BOOLEAN : DashSendTimeout(accepted)
    \/ DashLog(TRUE)
    \/ DashCount
    \/ DashDone
    \/ \E sid \in CallbackSids, status \in CallbackStatuses : TwilioStatus("h1", sid, status)
    \/ \E statuses \in StatusLists : MetaWebhook("h1", <<>>, statuses)
    \/ \E dbOk \in BOOLEAN : HandlerUpdate("h1", dbOk)
    \/ HandlerReturn("h1")
    \/ MetaWebhookBadJson
SpecReconcile == InitReconcile /\ [][NextReconcile]_vars

\* The same send loop with the status requests of the Twilio surface alone:
\* the tables it reaches are those of SpecReconcile.
NextTable ==
    \/ \E cs \in OneContactLists : DashStart(cs, OneMessage)
    \/ DashSend
    \/ \E resp \in { [kind |-> "http", code |-> 201, ids |-> "id", msg |-> "none"],
                      [kind |-> "http", code |-> 400, ids |-> "none", msg |-> "text"] } : DashResponse(resp)
    \/ \E accepted \in BOOLEAN : DashSendTimeout(accepted)
    \/ DashLog(TRUE)
    \/ DashCount
    \/ DashDone
    \/ \E sid \in CallbackSids, status \in CallbackStatuses : TwilioStatus("h1", sid, status)
    \/ \E dbOk \in BOOLEAN : HandlerUpdate("h1", dbOk)
    \/ HandlerReturn("h1")
SpecTable == InitReconcile /\ [][NextTable]_vars

\* The dashboard's send loop through Twilio, "delivered" callbacks for the ids
\* it was given, and the contacts page's "delete all".
InitAdmin == Init /\ provider = "twilio" /\ rate_limit = 0
NextAdmin ==
    \/ \E cs \in OneContactLists : DashStart(cs, OneMessage)
    \/ DashSend
    \/ \E resp \in TwilioResponses : DashResponse(resp)
    \/ \E accepted \in BOOLEAN : DashSendTimeout(accepted)
    \/ \E dbOk \in BOOLEAN : DashLog(dbOk)
    \/ \E committed \in BOOLEAN : DashLogTimeout(committed)
    \/ DashCount
    \/ DashDone
    \/ \E sid \in CallbackSids \ {EmptyStr} : TwilioStatus("h1", sid, "delivered")
    \/ \E dbOk \in BOOLEAN : HandlerUpdate("h1", dbOk)
    \/ HandlerReturn("h1")
    \/ DeleteAllContacts
SpecAdmin == InitAdmin /\ [][NextAdmin]_vars

\* Bodies of POST /webhook: one "read" status, or two for two different ids.
MetaStatusRequests ==
    { << [id |-> sid, status |-> "read"] >> : sid \in CallbackSids \ {<<0>>} }
    \cup { << [id |-> <<mn[1]>>, status |-> "read"], [id |-> <<mn[2]>>, status |-> "read"] >> :
             mn \in { p \in (1..(nextSid - 1)) \X (1..(nextSid - 1)) : p[1] < p[2] } }

\* The dashboard's send loop through Twilio, each message accepted (201 with
\* an id) or rejected (400), and a Twilio status request and a Meta status
\* request in progress at the same time.
NextCallbacks ==
    \/ \E cs \in OneContactLists : DashStart(cs, OneMessage)
    \/ DashSend
    \/ \E saved \in BOOLEAN : \E cs \in OneContactLists : DashStartTimeout(cs, OneMessage, saved)
    \/ \E resp \in { [kind |-> "http", code |-> 201, ids |-> "id", msg |-> "none"],
                      [kind |-> "http", code |-> 400, ids |-> "none", msg |-> "text"] } : DashResponse(resp)
    \/ \E accepted \in BOOLEAN : DashSendTimeout(accepted)
    \/ \E dbOk \in BOOLEAN : DashLog(dbOk)
    \/ \E committed \in BOOLEAN : DashLogTimeout(committed)
    \/ DashCount
    \/ DashDone
    \/ \E updated \in BOOLEAN : DashDoneTimeout(updated)
    \/ \E sid \in CallbackSids \ {<<0>>}, status \in {"", "delivered"} :
          TwilioStatus("h1", sid, status)
    \/ \E statuses \in MetaStatusRequests : MetaWebhook("h2", <<>>, statuses)
    \/ \E h \in Handlers, dbOk \in BOOLEAN : HandlerUpdate(h, dbOk)
    \/ \E h \in Handlers : HandlerReturn(h)
SpecCallbacks == InitAdmin /\ [][NextCallbacks]_vars

\* One run of the CLI's cmd_send on a campaign in 'draft'.
NextCli ==
    \/ \E contacts \in CallerRecipientLists, message \in CallerTemplates \cup {EmptyStr},
          dry_run, confirm \in BOOLEAN : CmdSendPrompts(contacts, message, dry_run, confirm)
    \/ CmdSendSave
    \/ CmdSendSending
    \/ CmdSendDryRun
    \/ CmdSendBulk
SpecCli == Init /\ [][NextCli]_vars

\* The Telegram bot with no admin or one, and two users writing to it.
InitBot ==
    /\ provider = "twilio"
    /\ rate_limit = 0
    /\ verify_token = EmptyStr
    /\ admin_ids \in {{}, {"admin"}}
    /\ InitParts
NextBot ==
    \/ \E u \in Users : SendStart(u)
    \/ \E has_campaigns, ok \in BOOLEAN : SendStartCampaigns(has_campaigns, ok)
    \/ \E ok \in BOOLEAN : SendStartReply(ok)
    \/ \E u \in Users, campaign_id \in {0, 1} : SendSelectCampaign(u, campaign_id)
    \/ \E ok \in BOOLEAN : SendSelectAnswer(ok)
    \/ \E contacts \in CallerRecipientLists, ok, replied \in BOOLEAN :
          SendSelectContacts(contacts, ok, replied)
    \/ \E ok \in BOOLEAN : SendSelectOffer(ok)
    \/ \E u \in Users, text \in CallerTemplates : SendCompose(u, text)
    \/ \E ok \in BOOLEAN : SendComposeReply(ok)
    \/ \E u \in Users, text \in Answers, replied \in BOOLEAN : SendConfirm(u, text, replied)
    \/ \E ok \in BOOLEAN : SendConfirmSave(ok)
    \/ \E replied \in BOOLEAN : SendConfirmBulk(replied)
    \/ \E u \in Users, replied \in BOOLEAN : Cancel(u, replied)
SpecBot == InitBot /\ [][NextBot]_vars

\* Values of the From field of a Twilio message, and texts of a message.
TwilioFroms == { WA_PREFIX \o P1, P2, EmptyStr }
Texts == { EmptyStr, <<"h", "i">> }

\* Messages of a Meta body ("from" with or without its "+"), and bodies of at
\* most MaxRecipients messages.
MetaMessages == [from : { <<"1">>, P2 }, text : Texts]
MetaMessageLists == UNION { [1..n -> MetaMessages] : n \in 0..MaxRecipients }

\* The bodies in which the second phone writes at most once, and only while
\* none of its messages is in its window.
OncePerWindow(messages) ==
    LET own == { k \in 1..Len(messages) :
                   MetaPhone(messages[k].from) = P2 /\ messages[k].text # EmptyStr }
    IN  own = {} \/ (Cardinality(own) = 1 /\ inbound_rate[P2] = <<>>)

\* Inbound messages over both surfaces, a Meta body bringing a status object
\* along, and the limiter's clock.  The first phone writes as often as it
\* likes, the second once per window.
InitInbound == Init /\ provider = "twilio" /\ rate_limit = 1
NextInbound ==
    \/ \E from \in TwilioFroms, text \in Texts :
          /\ (TwilioPhone(from) = P2 /\ text # EmptyStr) => inbound_rate[P2] = <<>>
          /\ TwilioIncoming(from, text)
    \/ \E messages \in MetaMessageLists :
          /\ OncePerWindow(messages)
          /\ MetaWebhook("h1", messages, << [id |-> <<0>>, status |-> "read"] >>)
    \/ HandlerUpdate("h1", TRUE)
    \/ HandlerReturn("h1")
    \/ InboundTick
SpecInbound == InitInbound /\ [][NextInbound]_vars

\* The verification handshake of the Meta webhook, under every configured
\* token.
InitVerify ==
    /\ provider = "meta"
    /\ rate_limit = 1
    /\ verify_token \in Tokens
    /\ admin_ids = {}
    /\ InitParts
NextVerify ==
    \E mode \in Modes, token \in Tokens, challenge \in Challenges :
        MetaVerify(mode, token, challenge)
SpecVerify == InitVerify /\ [][NextVerify]_vars

\* ------------------------------------------------------------ properties
\* Call c has stopped, by returning or by an exception.
Stopped(c) == call[c].pc \in {"done", "raised"}

\* Call c has the outcome of a send and has gone on from the line that
\* follows the send.
PastOutcome(c) == call[c].result # NoResult /\ call[c].pc \in {"loop", "done", "raised"}

\* C1: at every point of a send_bulk call sent + failed is the number of
\* entries appended so far, and a call that has ended holds exactly one entry
\* per recipient of its list.
C1_BulkResultCounts ==
    \A c \in Calls :
        LET r == call[c].results IN
        /\ r.sent + r.failed = Len(r.results)
        /\ Stopped(c) => Len(r.results) = Len(call[c].recipients)

\* C2: a failed provider send for recipient k does not stop the loop: the
\* failure is counted in failed and the call goes on to the recipients after k.
C2_FailureIsolation ==
    \A c \in Calls :
        (PastOutcome(c) /\ call[c].result.status = "failed")
            => /\ call[c].results.failed >= 1
               /\ call[c].pc # "raised"

\* C3: under a selector that is neither "twilio" nor "meta", send_message
\* does not raise and the send_bulk run is not aborted.
C3_UnknownProviderRejected ==
    ~KnownProvider(provider) => \A c \in Calls : call[c].exc # "ValueError"

\* C4: with two send_bulk calls running under a positive rate, every provider
\* send, whichever call it comes from, starts at least 1/rate after the send
\* before it.
C4_SharedLimiter ==
    rate_limit > 0 => \A c \in Calls : call[c].gap >= Interval(rate_limit)

\* C5: under a positive rate, within one bulk send the send for recipient
\* i+1 starts at least 1/rate after the send for recipient i.
C5_RateLowerBound ==
    (rate_limit > 0 /\ dash.pc = "await_send" /\ dash.i > 0)
        => dash.gap >= Interval(rate_limit)

\* C6: under a rate of zero or less, consecutive provider sends are still
\* kept apart by a delay that is not zero.
C6_NonPositiveRateThrottled ==
    rate_limit <= 0 => \A c \in Calls : call[c].gap > 0

\* C7: the body send_bulk submits is the template rendered in a single pass:
\* text brought in by a value is never substituted again.
C7_SinglePassRender ==
    \A c \in Calls :
        call[c].pc = "await_send"
            => call[c].body = RenderFields(call[c].message_template, EmptyStr, EmptyStr,
                                           FieldOf(Recipient(c), "phone"),
                                           FieldOf(Recipient(c), "name"))

\* The canonical delivery statuses.
CanonicalStatuses == {"queued", "sent", "delivered", "read", "failed"}

\* The table after a status endpoint has handled update u.
AfterCallback(log, u) ==
    IF Applicable(u) THEN UpdateMessageStatus(log, u.id, u.status) ELSE log

\* C8: every status stored in message_log is one of the canonical values,
\* whatever dispatches and status callbacks have happened.
C8_StoredStatusCanonical ==
    \A k \in 1..Len(message_log) : message_log[k].status \in CanonicalStatuses

\* C9: handling the same status update twice in a row leaves the table as
\* handling it once does, from every table the program can reach.
C9_IdempotentUpdate ==
    \A u \in StatusUpdates :
        LET once == AfterCallback(message_log, u)
        IN  AfterCallback(once, u) = once

\* The same status has been applied twice in a row to an existing row.
C9_Witness ==
    \E n \in 1..Len(lastApplied) :
        /\ lastApplied[n].status # "none"
        /\ lastApplied[n].prev = lastApplied[n].status
        /\ HasRow(message_log, <<n>>)

\* C10: the status stored for a provider message id is the one carried by the
\* last callback applied to it, whatever that callback's place in the
\* lifecycle.
C10_LastWriteWins ==
    \A k \in 1..Len(message_log) :
        \A n \in 1..Len(lastApplied) :
            (message_log[k].wa_message_id = <<n>> /\ lastApplied[n].status # "none")
                => message_log[k].status = lastApplied[n].status

\* "delivered" then "sent" have been applied to a row, which now says "sent".
C10_Witness ==
    \E k \in 1..Len(message_log) :
        \E n \in 1..Len(lastApplied) :
            /\ message_log[k].wa_message_id = <<n>>
            /\ lastApplied[n].prev = "delivered"
            /\ lastApplied[n].status = "sent"
            /\ message_log[k].status = "sent"

\* C11: from every table the program reaches, handling a status callback
\* whose id matches no row leaves the table as it was (no row changed, none
\* added), and the endpoint that has handled such a callback has answered "ok".
C11_UnknownIdNoOp ==
    /\ \A u \in StatusUpdates :
           ~HasRow(message_log, u.id) => AfterCallback(message_log, u) = message_log
    /\ Len(message_log) = Len(created)
    /\ missed # EmptyStr => response = "ok"

\* A callback with an id the provider never gave to this program has been
\* handled while the table holds rows, and the endpoint has answered "ok".
C11_Witness ==
    /\ missed = <<0>>
    /\ response = "ok"
    /\ message_log # <<>>

\* C12: GET /webhook answers 200 with the challenge only under mode
\* "subscribe" and a token equal to the configured one; every request whose
\* token differs from the configured one is answered 403 with an empty body.
C12_VerifyHandshake ==
    handshake.code # 0 =>
        /\ handshake.code = 200 => (handshake.mode = "subscribe" /\ handshake.token = verify_token)
        /\ handshake.token # verify_token => (handshake.code = 403 /\ handshake.body = EmptyStr)

\* C13: no send_bulk call is ended by an exception, whatever its sends do.
C13_BulkAlwaysReturns ==
    \A c \in Calls : call[c].pc # "raised"

\* C14: what send_bulk gets back from _send_twilio and _send_meta is always
\* an outcome, "sent" or "failed", never an exception, and a failed outcome
\* has an empty provider id and an error reason.
C14_AdaptersNeverRaise ==
    \A c \in Calls :
        call[c].pc = "get_user" =>
            /\ call[c].result.status \in {"sent", "failed"}
            /\ call[c].result.status = "failed" =>
                  /\ call[c].result.sid = EmptyStr
                  /\ call[c].result.error \notin {"", None}

\* C15: the body send_bulk submits for a recipient dictionary built by its
\* callers is the template with {first_name}, {last_name}, {phone} and {name}
\* replaced by that recipient's values.
C15_AllPlaceholdersRendered ==
    \A c \in Calls :
        call[c].pc = "await_send"
            => call[c].body = RenderFields(call[c].message_template,
                                           Recipient(c).first_name, Recipient(c).last_name,
                                           Recipient(c).phone,
                                           DisplayName(Recipient(c).first_name,
                                                       Recipient(c).last_name))

\* C16: once send_bulk has the outcome of a recipient's send and has gone on,
\* a row carries that outcome: status "sent" and the provider's id, or status
\* "failed" and the failure reason in its error text.
C16_RowCarriesOutcome ==
    \A c \in Calls :
        PastOutcome(c) =>
            \E k \in 1..Len(message_log) :
                /\ message_log[k].status = call[c].result.status
                /\ message_log[k].wa_message_id = call[c].result.sid
                /\ message_log[k].error_message = call[c].result.error

\* C17: when a send_bulk call ends, it has inserted one row per recipient of
\* its list.
C17_OneRowPerRecipient ==
    Stopped("a") => Len(message_log) = Len(call["a"].recipients)

\* C18: no status callback for an id the provider gave to a send of send_bulk
\* is handled while no row carries that id.
C18_CallbackFindsRow ==
    \A n \in 1..(nextSid - 1) : missed # <<n>>

\* C19: when a send_bulk loop has stopped, by returning or by an error, every
\* message the provider accepted has its row.
C19_SubmittedAreLogged ==
    \A c \in Calls :
        (Stopped(c) /\ call[c].result.status = "sent")
            => \E k \in 1..Len(message_log) :
                  message_log[k].phone = FieldOf(Recipient(c), "phone")

\* C20: an outcome with status "sent" carries the id the provider assigned,
\* which is not empty.
C20_SentCarriesId ==
    \A c \in Calls : call[c].result.status = "sent" => call[c].result.sid # EmptyStr

\* C21: no two rows of message_log carry the same provider message id, the
\* empty one apart, so a status callback for an id changes at most one row.
C21_ProviderIdUnique ==
    /\ \A j, k \in 1..Len(message_log) :
          (message_log[j].wa_message_id # EmptyStr
             /\ message_log[j].wa_message_id = message_log[k].wa_message_id) => j = k
    /\ \A u \in StatusUpdates :
          LET after == AfterCallback(message_log, u)
          IN  Cardinality({ k \in 1..Len(message_log) : after[k] # message_log[k] }) <= 1

\* Two sends have been logged under two different provider ids and a callback
\* has changed the status of the first one's row only.
C21_Witness ==
    /\ Len(message_log) = 2
    /\ message_log[1].wa_message_id = <<1>>
    /\ message_log[2].wa_message_id = <<2>>
    /\ message_log[1].status = "delivered"
    /\ message_log[2].status = "sent"
    /\ lastApplied[1].status = "delivered"

\* C22 as stated: once a row is created nothing but its status ever changes,
\* and it is never deleted.
C22_OnlyStatusChanges ==
    /\ Len(message_log) = Len(created)
    /\ \A k \in 1..Len(created) :
          [message_log[k] EXCEPT !.status = created[k].status] = created[k]

\* C22 amended: a row keeps the phone, content, provider id, error text and
\* campaign id it was created with and is never deleted; its status changes
\* only to what a status callback for its id carried, and its contact id only
\* to NULL.
C22_CreationValuesKept ==
    /\ Len(message_log) = Len(created)
    /\ \A k \in 1..Len(created) :
          /\ message_log[k].phone = created[k].phone
          /\ message_log[k].content = created[k].content
          /\ message_log[k].wa_message_id = created[k].wa_message_id
          /\ message_log[k].error_message = created[k].error_message
          /\ message_log[k].campaign_id = created[k].campaign_id
          /\ message_log[k].contact_id \in {created[k].contact_id, <<>>}
          /\ message_log[k].status # created[k].status =>
                \E n \in 1..Len(lastApplied) :
                    /\ message_log[k].wa_message_id = <<n>>
                    /\ lastApplied[n].status = message_log[k].status

\* A row has had its status changed by a callback and its contact id set to
\* NULL by delete_all_contacts.
C22_Witness ==
    \E k \in 1..Len(created) :
        /\ k <= Len(message_log)
        /\ message_log[k].status # created[k].status
        /\ message_log[k].contact_id # created[k].contact_id

\* C23: with status requests in progress at the same time, every row whose id
\* a callback has been applied to holds the status of the last one applied,
\* and every other row holds the status it was created with.
C23_AtomicOverwrite ==
    \A k \in 1..Len(message_log) :
        IF \E n \in 1..Len(lastApplied) :
              message_log[k].wa_message_id = <<n>> /\ lastApplied[n].status # "none"
        THEN \A n \in 1..Len(lastApplied) :
                message_log[k].wa_message_id = <<n>>
                    => message_log[k].status = lastApplied[n].status
        ELSE k <= Len(created) /\ message_log[k].status = created[k].status

\* Two requests for the same id are in progress together: "delivered" then
\* "read" have been applied to its row, neither request has been answered,
\* and the row of another id still says "sent".
C23_Witness ==
    /\ handler["h1"].pc = "run"
    /\ handler["h2"].pc = "run"
    /\ Len(message_log) = 2
    /\ message_log[1].wa_message_id = <<1>>
    /\ message_log[2].wa_message_id = <<2>>
    /\ lastApplied[1] = [prev |-> "delivered", status |-> "read"]
    /\ message_log[1].status = "read"
    /\ message_log[2].status = "sent"

\* A status callback without a message id or without a status.
EmptyCallback(u) == u.id = EmptyStr \/ u.status = ""

\* C26: a status callback with an empty id or an empty status leads to no
\* database update, and a row with an empty provider id keeps the status it
\* was created with.
C26_EmptyCallbackSkipped ==
    /\ \A u \in StatusUpdates :
          EmptyCallback(u) => AfterCallback(message_log, u) = message_log
    /\ \A h \in Handlers :
          (\A j \in 1..Len(handler[h].request) : EmptyCallback(handler[h].request[j]))
              => handler[h].pending = <<>>
    /\ \A k \in 1..Len(message_log) :
          message_log[k].wa_message_id = EmptyStr
              => (k <= Len(created) /\ message_log[k] = created[k])

\* A Twilio callback with a status and no MessageSid is being answered with
\* nothing to update, while the table holds a row without provider id.
C26_Witness ==
    /\ handler["h1"].pc = "run"
    /\ handler["h1"].request = << [id |-> EmptyStr, status |-> "delivered"] >>
    /\ handler["h1"].pending = <<>>
    /\ \E k \in 1..Len(message_log) : message_log[k].wa_message_id = EmptyStr

C27_NoTokenRejectsAll ==
    (verify_token = EmptyStr /\ handshake.code # 0)
        => (handshake.code = 403 /\ handshake.body = EmptyStr)

\* With no token configured, a "subscribe" request that carries no token
\* either has been answered 403.
C27_Witness ==
    /\ verify_token = EmptyStr
    /\ handshake.mode = "subscribe"
    /\ handshake.token = EmptyStr
    /\ handshake.challenge # EmptyStr
    /\ handshake.code = 403

\* C28: for each phone the window never holds more than 10 timestamps and no
\* more than 10 messages have gone past the limiter within the last 60
\* seconds; a message dropped by the limiter leaves the window full and is
\* not among those.
C28_InboundLimit ==
    \A p \in Phones :
        /\ Len(inbound_rate[p]) <= MAX_MESSAGES_PER_MINUTE
        /\ Len(processed[p]) <= MAX_MESSAGES_PER_MINUTE
        /\ dropped[p] => Len(inbound_rate[p]) = MAX_MESSAGES_PER_MINUTE

\* A phone's eleventh message within the window has been dropped, while its
\* window holds timestamps of two different ages.
C28_Witness ==
    /\ dropped[P1]
    /\ Len(processed[P1]) = MAX_MESSAGES_PER_MINUTE
    /\ \E j, k \in 1..Len(inbound_rate[P1]) : inbound_rate[P1][j] # inbound_rate[P1][k]

\* C29: once cmd_send is over, in whatever way, the campaign it set to
\* 'sending' is 'sent' or 'draft'.
C29_NeverLeftSending ==
    cli.pc \in {"returned", "raised"} => campaign_status \in {"sent", "draft"}

\* C30: a user who is not an admin is never inside the /send conversation,
\* has nothing stored for a send and has no handler of the conversation in
\* progress; at each step (start, campaign selection, compose, confirm) the
\* handler does not go on for such a user; and a confirmation that has
\* reached the send, a message saved on the campaign or a logged message
\* comes from an admin.
C30_SendOnlyForAdmin ==
    /\ \A u \in Users \ admin_ids :
          /\ conv[u] = "END"
          /\ user_data[u] = NoUserData
          /\ bot.pc # "idle" => bot.user # u
          /\ ~SendStartGoesOn(u)
          /\ ~SendSelectCampaignGoesOn(u)
          /\ ~SendComposeGoesOn(u)
          /\ \A text \in Answers : ~SendConfirmGoesOn(u, text)
    /\ sender # "" => sender \in admin_ids
    /\ saver # "" => saver \in admin_ids
    /\ campaign_message # EmptyStr => saver \in admin_ids
    /\ message_log # <<>> => sender \in admin_ids

\* The bot has refused the guest, and the admin's confirmation has saved the
\* message on the campaign and reached the send.
C30_Witness ==
    /\ "guest" \in refused
    /\ "guest" \notin admin_ids
    /\ saver = "admin"
    /\ sender = "admin"
    /\ campaign_message # EmptyStr
====
